---- MODULE Spec2Model ----
(***************************************************************************)
(* A model of chia-binary-manager: the BinaryManager (release resolution,  *)
(* on-demand download/extraction, periodic update polling) and the Chia    *)
(* process wrapper (spawn, close/error settlement, kill).                  *)
(***************************************************************************)
EXTENDS Integers, Sequences, FiniteSets, TLC

\* ------------------------------------------------------------------ bounds
\* Calls of _updateLatestRelease by the timer and of getConfiguredChia by
\* callers that one behaviour starts (init's own poll is task 0).
MaxTasks == 1

\* --------------------------------------------------------------- constants
Platforms == {"linux", "win32", "darwin"}

\* Versions embedded in asset names: major.minor.patch, as numbers. The
\* names are those of valid semantic versions (no leading zeros), which
\* semver compares number by number.
V1 == <<1, 9, 0>>
V2 == <<1, 10, 0>>
V3 == <<2, 0, 0>>
Versions == {V1, V2, V3}

\* The arguments callers give getConfiguredChia: none (<<>>), or a version.
GetArgs == {<<>>, V2}

\* An asset name "<stem><major>.<minor>.<patch><tail>".
Name(stem, ver, tail) == [stem |-> stem, ver |-> ver, tail |-> tail]
NoName == Name("", <<>>, "")

\* The assets the feed of the manager specification publishes.
FeedAssets ==
    {Name("chia-", v, "-linux.zip") : v \in Versions}
        \cup {Name("chia-", V2, "-win.zip")}

\* A release as the manager holds it: JavaScript undefined (before init),
\* null (no asset matched), or an asset with its extracted version.
Release(kind, name, version) == [kind |-> kind, name |-> name, version |-> version]
Undefined == Release("undefined", NoName, <<>>)
Null == Release("null", NoName, <<>>)

VARIABLES
    platform,        \* os.platform()
    notifyOnUpdate,  \* BinaryManager.notifyOnUpdate
    feed,            \* the set of assets the release has now
    latestRelease,   \* BinaryManager.latestRelease
    timerArmed,      \* setInterval(_updateLatestRelease) is active
    initPc,          \* position of BinaryManager.init()
    binaries,        \* versions whose <binaryDirectory>/<v>/<binaryName> exists
    dirs,            \* versions whose <binaryDirectory>/<v> exists
    zip,             \* per version, the temp archive chia-<v>.zip
    tasks,           \* the running/finished polls and getConfiguredChia calls
    events,          \* the 'new-release' notifications emitted, in order
    ensured,         \* versions some _ensureVersionExists call has succeeded for
    cachedByInit,    \* what init() assigned to latestRelease
    fetchCall,       \* one direct call of _getLatestRelease
    sups,            \* the Chia instances
    procs,           \* the child processes spawned, in order
    graceTimers,     \* per Chia instance, the kill() calls waiting out the delay
    lastKill,        \* what the latest kill() call did
    configFiles,     \* per root directory, the file <root>/config/config.yaml
    configCall,      \* the latest writeConfig and readConfig calls
    plotCall         \* one call of createPlot

managerVars == <<platform, notifyOnUpdate, feed, latestRelease, timerArmed, initPc,
                 binaries, dirs, zip, tasks, events, ensured, cachedByInit>>
chiaVars == <<sups, procs, graceTimers, lastKill>>
callVars == <<configFiles, configCall, plotCall>>
vars == <<managerVars, fetchCall, chiaVars, callVars>>

files == <<binaries, dirs, zip>>

\* ------------------------------------------------------------------ semver
\* semver.compare on two major.minor.patch versions: -1, 0 or 1.
SemverCompare(a, b) ==
    IF a[1] # b[1] THEN (IF a[1] < b[1] THEN -1 ELSE 1)
    ELSE IF a[2] # b[2] THEN (IF a[2] < b[2] THEN -1 ELSE 1)
    ELSE IF a[3] # b[3] THEN (IF a[3] < b[3] THEN -1 ELSE 1)
    ELSE 0

SemverGteMutant(a, b) == SemverCompare(a, b) <= 0
SemverGte(a, b) == SemverCompare(a, b) >= 0

SemverLteMutant(a, b) == SemverCompare(a, b) < 0
SemverLte(a, b) == SemverCompare(a, b) <= 0

\* ------------------------------------------------------- release resolution
Supported(plat) == plat \in {"win32", "linux"}

\* The tails the platform's pattern accepts after the version. The pattern
\* is unanchored and its '.' before "zip" matches any character.
BinaryZipRegex(plat) ==
    CASE plat = "win32" -> {"-win.zip", "-win_zip", "-win.zip.sha256"}
      [] plat = "linux" -> {"-linux.zip", "-linux_zip", "-linux.zip.sha256"}
      [] OTHER -> {}

\* asset.name.match(regex): <<>> when there is no match, else the captured
\* version. The stem must end in "chia-" for the pattern to be found.
Match(name, regex) ==
    IF name.stem \in {"chia-", "old-chia-"} /\ Len(name.ver) = 3
       /\ name.tail \in regex
    THEN <<name.ver>> ELSE <<>>

\* The reducer of _getLatestRelease: keeps the accumulator unless the
\* current asset's version is strictly greater.
ReduceStep(latestReleaseAsset, curr) ==
    IF latestReleaseAsset.kind = "null" THEN curr
    ELSE IF SemverGte(latestReleaseAsset.version, curr.version)
         THEN latestReleaseAsset ELSE curr

RECURSIVE Reduce(_, _)
Reduce(seq, acc) ==
    IF seq = <<>> THEN acc ELSE Reduce(Tail(seq), ReduceStep(acc, Head(seq)))

\* Assets with asset.version set where the name matches (the map), then the
\* filter on asset.version.
MatchingAssets(data, plat) ==
    LET mapped == [i \in 1..Len(data) |->
                     LET m == Match(data[i], BinaryZipRegex(plat))
                     IN IF m # <<>> THEN Release("asset", data[i], m[1])
                        ELSE Release("nomatch", data[i], <<>>)]
    IN SelectSeq(mapped, LAMBDA a : a.kind = "asset")

\* _getLatestRelease on a received response `data`: the getter
\* _binaryZipRegex throws inside the map callback, which runs once per asset.
Outcome(err, value) == [err |-> err, value |-> value]
GetLatestRelease(data, plat) ==
    IF ~Supported(plat) /\ Len(data) > 0
    THEN Outcome("UnsupportedPlatform", Null)
    ELSE Outcome("none", Reduce(MatchingAssets(data, plat), Null))

\* The responses the endpoint can give for a set of assets: the assets in
\* any order.
Responses(assets) ==
    {data \in [1..Cardinality(assets) -> assets] :
        \A i, j \in 1..Cardinality(assets) : i # j => data[i] # data[j]}

\* ------------------------------------------------------------------ paths
\* The directories the manager was constructed with; a path is the sequence
\* of its segments.
BinaryDirectory == "binaries"
ChiaRootDirectory == "chia-root"

BinaryName(plat) == IF plat = "win32" THEN "chia.exe" ELSE "chia"
GetBinaryDirectory(version) == <<BinaryDirectory, version>>

\* What _getChiaBinaryPath returns once _ensureVersionExists has succeeded.
GetChiaBinaryPathMutant(plat, version) == <<BinaryDirectory, BinaryName(plat)>>
GetChiaBinaryPath(plat, version) == Append(GetBinaryDirectory(version), BinaryName(plat))

\* new Chia({ binaryPath, rootDirectory }); runningProcess 0 is null, else
\* the index of the child in procs.
NoChia == [exists |-> FALSE, binaryPath |-> <<>>, rootDirectory |-> "", runningProcess |-> 0]
NewChia(binaryPath, rootDirectory) ==
    [exists |-> TRUE, binaryPath |-> binaryPath, rootDirectory |-> rootDirectory,
     runningProcess |-> 0]

\* ------------------------------------------------------------------- tasks
TaskIds == 0..MaxTasks

NoTask ==
    [kind |-> "none", pc |-> "idle", rel |-> Null, ferr |-> "none",
     ver |-> <<>>, absent |-> FALSE, again |-> FALSE, fd |-> FALSE,
     mk |-> 0, dl |-> 0, wr |-> 0, ex |-> 0, ul |-> 0,
     ens |-> "none", err |-> "none", result |-> "pending", chia |-> NoChia,
     ovl |-> FALSE, retry |-> FALSE]

\* The timer polls and callers take the task ids 1..MaxTasks in order.
NextTask(t) ==
    /\ t \in 1..MaxTasks
    /\ tasks[t].kind = "none"
    /\ \A u \in 1..(t - 1) : tasks[u].kind # "none"

Writing(t, v) == tasks[t].pc = "dl_write" /\ tasks[t].ver = v /\ tasks[t].fd

\* ---------------------------------------------------------------- manager
\* The manager after its constructor, on an empty disk.
Constructed ==
    /\ latestRelease = Undefined
    /\ timerArmed = FALSE
    /\ initPc = "new"
    /\ binaries = {}
    /\ dirs = {}
    /\ zip = [v \in Versions |-> "absent"]
    /\ tasks = [t \in TaskIds |-> NoTask]
    /\ events = <<>>
    /\ ensured = {}
    /\ cachedByInit = Undefined

ManagerInit ==
    /\ platform \in Platforms
    /\ notifyOnUpdate \in BOOLEAN
    /\ feed = {}
    /\ Constructed

\* The remote release gains an asset.
FeedPublish(a) ==
    /\ a \notin feed
    /\ feed' = feed \cup {a}
    /\ UNCHANGED <<fetchCall, chiaVars, callVars, cachedByInit, platform, notifyOnUpdate, latestRelease, timerArmed, initPc,
                   binaries, dirs, zip, tasks, events, ensured>>

\* What the poll does once its _ensureVersionExists has settled.
PollAfterEnsureMutant(rec, ok) ==
    [latest |-> rec.rel, emit |-> <<rec.rel.version>>]
PollAfterEnsure(rec, ok) ==
    IF ok THEN [latest |-> rec.rel, emit |-> <<rec.rel.version>>]
    ELSE [latest |-> latestRelease, emit |-> <<>>]

\* What getConfiguredChia hands its caller: a Chia on the path of the
\* version once _getChiaBinaryPath has returned, nothing when it rejected.
ConfiguredChia(rec, ok) ==
    IF rec.kind = "get" /\ ok
    THEN NewChia(GetChiaBinaryPath(platform, rec.ver), ChiaRootDirectory)
    ELSE NoChia

\* A task ends: the continuation of its caller runs. `ok` tells whether the
\* ensure it awaited succeeded; rec.result tells whether the task itself
\* returned or raised; chia is what a getConfiguredChia call returned.
\* init() awaits task 0.
Finish(t, rec, ok) ==
    LET fin == [rec EXCEPT !.pc = "done", !.chia = ConfiguredChia(rec, ok)]
        after == PollAfterEnsure(rec, ok)
    IN /\ tasks' = [tasks EXCEPT ![t] = fin]
       /\ IF rec.kind = "poll" /\ rec.ens # "none"
          THEN /\ latestRelease' = after.latest
               /\ events' = events \o after.emit
          ELSE UNCHANGED <<latestRelease, events>>
       /\ ensured' = IF ok THEN ensured \cup {rec.ver} ELSE ensured
       /\ initPc' = IF t = 0
                    THEN (IF rec.result = "raised" THEN "failed" ELSE "done")
                    ELSE initPc

Returned(rec) == [rec EXCEPT !.result = "returned"]
Raised(rec, e) == [rec EXCEPT !.result = "raised", !.err = e]
\* A failed ensure: the poll swallows it, getConfiguredChia rejects with it.
EnsureFailed(rec, e) ==
    LET r == [rec EXCEPT !.ens = "failed", !.err = e]
    IN IF rec.kind = "poll" THEN Returned(r) ELSE Raised(r, e)
EnsureOk(rec, how) == Returned([rec EXCEPT !.ens = how])

\* The first existsSync(binaryPath) of _ensureVersionExists.
AlreadyInstalledByDirectory(v) == v \in dirs
AlreadyInstalledMutant(v) == FALSE
AlreadyInstalled(v) == v \in binaries

\* The existsSync(binaryPath) after _downloadBinary.
BinaryFound(v) == v \in binaries

\* _ensureVersionExists(version) up to its first await, then _downloadBinary
\* up to its first await (the download request is issued). The record notes
\* whether the binary was absent at the call (absent), whether an earlier
\* call for the version had already succeeded (again) and whether one had
\* already failed (retry); mk, dl, wr, ex, ul count the call's mkdirp calls,
\* download requests, write streams, extractions and unlinks.
FailedBefore(v) ==
    \E u \in TaskIds :
        tasks[u].pc = "done" /\ tasks[u].ens = "failed" /\ tasks[u].ver = v
EnsureEnter(t, rec, v) ==
    LET r == [rec EXCEPT !.ver = v, !.absent = v \notin binaries,
                         !.again = v \in ensured, !.retry = FailedBefore(v)]
    IN IF AlreadyInstalled(v)
       THEN /\ Finish(t, EnsureOk(r, "noop"), TRUE)
            /\ UNCHANGED files
       ELSE /\ dirs' = dirs \cup {v}
            /\ UNCHANGED <<binaries, zip>>
            /\ IF ~Supported(platform)
               THEN Finish(t, EnsureFailed([r EXCEPT !.mk = 2], "UnsupportedPlatform"), FALSE)
               ELSE /\ tasks' = [tasks EXCEPT ![t] =
                                   [r EXCEPT !.pc = "dl_get", !.mk = 2, !.dl = 1]]
                    /\ UNCHANGED <<latestRelease, events, ensured, initPc>>

\* A poll is running.
PollRunning(u) == tasks[u].kind = "poll" /\ tasks[u].pc # "done"

\* _updateLatestRelease is called: the feed request is issued. ovl notes
\* whether another poll was still running then.
UpdateLatestReleaseCall(t) ==
    tasks' = [tasks EXCEPT ![t] =
                [NoTask EXCEPT !.kind = "poll", !.pc = "fetch",
                               !.ovl = \E u \in TaskIds \ {t} : PollRunning(u)]]

\* setInterval fires.
Tick(t) ==
    /\ timerArmed
    /\ NextTask(t)
    /\ UpdateLatestReleaseCall(t)
    /\ UNCHANGED <<fetchCall, chiaVars, callVars, cachedByInit, platform, notifyOnUpdate, feed, latestRelease, timerArmed,
                   initPc, binaries, dirs, zip, events, ensured>>

\* The poll's comparison of a fetched release with the cached one:
\* "skip", "update", or "throw" when the cached release has no version.
CompareWithCachedMutant(new, cached) ==
    IF new.kind = "null" THEN "skip"
    ELSE IF cached.kind # "asset" THEN "throw"
    ELSE "update"
CompareWithCached(new, cached) ==
    IF new.kind = "null" THEN "skip"
    ELSE IF cached.kind # "asset" THEN "throw"
    ELSE IF SemverLte(new.version, cached.version) THEN "skip"
    ELSE "update"

\* The feed request of a poll completes: the rest of _updateLatestRelease up
\* to the first await inside _ensureVersionExists.
PollFetchResponse(t) ==
    /\ tasks[t].kind = "poll" /\ tasks[t].pc = "fetch"
    /\ UNCHANGED <<fetchCall, chiaVars, callVars, cachedByInit, platform, notifyOnUpdate, feed, timerArmed>>
    /\ \E netOk \in BOOLEAN, data \in Responses(feed) :
         LET got == IF netOk THEN GetLatestRelease(data, platform)
                    ELSE Outcome("NetworkError", Null)
             rec == [tasks[t] EXCEPT !.rel = got.value, !.ferr = got.err]
             cmp == CompareWithCached(got.value, latestRelease)
         IN IF got.err # "none" \/ cmp = "skip"
            THEN Finish(t, Returned(rec), FALSE) /\ UNCHANGED files
            ELSE IF cmp = "throw"
            THEN Finish(t, Raised(rec, "TypeError"), FALSE) /\ UNCHANGED files
            ELSE EnsureEnter(t, rec, got.value.version)

\* getConfiguredChia(version): arg <<>> stands for the default argument,
\* this.latestRelease.version.
GetConfiguredChia(t, arg) ==
    /\ NextTask(t)
    /\ UNCHANGED <<fetchCall, chiaVars, callVars, cachedByInit, platform, notifyOnUpdate, feed, timerArmed>>
    /\ LET rec == [NoTask EXCEPT !.kind = "get"]
       IN IF arg = <<>> /\ latestRelease.kind # "asset"
          THEN Finish(t, Raised(rec, "TypeError"), FALSE) /\ UNCHANGED files
          ELSE EnsureEnter(t, rec, IF arg = <<>> THEN latestRelease.version ELSE arg)

\* The download request completes: the write stream is created (the archive
\* path is opened for writing, truncating it) and the response piped to it.
DownloadResponse(t) ==
    /\ tasks[t].pc = "dl_get"
    /\ UNCHANGED <<fetchCall, chiaVars, callVars, cachedByInit, platform, notifyOnUpdate, feed, timerArmed, binaries, dirs>>
    /\ \E netOk \in BOOLEAN :
         IF netOk
         THEN /\ zip' = [zip EXCEPT ![tasks[t].ver] = "partial"]
              /\ tasks' = [tasks EXCEPT ![t] =
                             [@ EXCEPT !.pc = "dl_write", !.fd = TRUE, !.wr = 1]]
              /\ UNCHANGED <<latestRelease, events, ensured, initPc>>
         ELSE /\ Finish(t, EnsureFailed(tasks[t], "NetworkError"), FALSE)
              /\ UNCHANGED zip

\* The writer emits 'finish': decompress is called. The archive is whole
\* once the last writer on it has finished; when another writer that
\* truncated it is still writing, it may or may not be whole yet.
WriterFinish(t) ==
    /\ tasks[t].pc = "dl_write"
    /\ UNCHANGED <<fetchCall, chiaVars, callVars, cachedByInit, platform, notifyOnUpdate, feed, timerArmed, binaries, dirs,
                   latestRelease, events, ensured, initPc>>
    /\ LET v == tasks[t].ver
           others == \E u \in TaskIds : u # t /\ Writing(u, v)
       IN /\ tasks' = [tasks EXCEPT ![t] = [@ EXCEPT !.pc = "dl_extract", !.fd = FALSE]]
          /\ IF ~tasks[t].fd THEN UNCHANGED zip
             ELSE IF ~others THEN zip' = [zip EXCEPT ![v] = "complete"]
             ELSE \E s \in {"partial", "complete"} : zip' = [zip EXCEPT ![v] = s]

\* The writer emits 'error'.
WriterError(t) ==
    /\ tasks[t].pc = "dl_write"
    /\ UNCHANGED <<fetchCall, chiaVars, callVars, cachedByInit, platform, notifyOnUpdate, feed, timerArmed, binaries, dirs, zip>>
    /\ Finish(t, EnsureFailed([tasks[t] EXCEPT !.fd = FALSE], "WriteError"), FALSE)

\* The temp archive of a version is at its path.
ArchiveExistsMutant(v) == FALSE
ArchiveExists(v) == zip[v] # "absent"

\* decompress(zipFilePath, dir) settles: it rejects when the archive is
\* missing or not whole (or on any other I/O error); otherwise the archive's
\* files are in the versioned directory, the binary among them or not.
Decompress(t) ==
    /\ tasks[t].pc = "dl_extract"
    /\ UNCHANGED <<fetchCall, chiaVars, callVars, cachedByInit, platform, notifyOnUpdate, feed, timerArmed, dirs, zip>>
    /\ LET v == tasks[t].ver
       IN \/ /\ zip[v] = "complete"
             /\ \E hasBinary \in BOOLEAN :
                  binaries' = IF hasBinary THEN binaries \cup {v} ELSE binaries
             /\ tasks' = [tasks EXCEPT ![t] = [@ EXCEPT !.pc = "dl_unlink", !.ex = 1]]
             /\ UNCHANGED <<latestRelease, events, ensured, initPc>>
          \/ /\ Finish(t, EnsureFailed(tasks[t],
                     IF ~ArchiveExists(v) THEN "ENOENT" ELSE "ExtractError"), FALSE)
             /\ UNCHANGED binaries

\* fs.unlink(zipFilePath) takes effect on the file system.
Unlink(t) ==
    /\ tasks[t].pc = "dl_unlink"
    /\ UNCHANGED <<fetchCall, chiaVars, callVars, cachedByInit, platform, notifyOnUpdate, feed, timerArmed, binaries, dirs>>
    /\ LET v == tasks[t].ver
       IN IF ArchiveExists(v)
          THEN /\ zip' = [zip EXCEPT ![v] = "absent"]
               /\ tasks' = [u \in TaskIds |->
                              IF u = t THEN [tasks[t] EXCEPT !.pc = "recheck", !.ul = 1]
                              ELSE IF tasks[u].ver = v THEN [tasks[u] EXCEPT !.fd = FALSE]
                              ELSE tasks[u]]
               /\ UNCHANGED <<latestRelease, events, ensured, initPc>>
          ELSE /\ Finish(t, EnsureFailed(tasks[t], "ENOENT"), FALSE)
               /\ UNCHANGED zip

\* _downloadBinary has returned: the second existsSync of
\* _ensureVersionExists, and the caller's continuation.
Recheck(t) ==
    /\ tasks[t].pc = "recheck"
    /\ UNCHANGED <<fetchCall, chiaVars, callVars, cachedByInit, platform, notifyOnUpdate, feed, timerArmed, binaries, dirs, zip>>
    /\ IF BinaryFound(tasks[t].ver)
       THEN Finish(t, EnsureOk(tasks[t], "installed"), TRUE)
       ELSE Finish(t, EnsureFailed(tasks[t], "MissingBinary"), FALSE)

\* init() is called: the binary directory is made, the feed request issued.
InitCall ==
    /\ initPc = "new"
    /\ initPc' = "fetch"
    /\ UNCHANGED <<fetchCall, chiaVars, callVars, cachedByInit, platform, notifyOnUpdate, feed, latestRelease, timerArmed,
                   binaries, dirs, zip, tasks, events, ensured>>

\* init()'s feed request completes: latestRelease is assigned, the timer is
\* set and the first _updateLatestRelease is called and awaited (task 0).
InitFetchResponse ==
    /\ initPc = "fetch"
    /\ UNCHANGED <<fetchCall, chiaVars, callVars, platform, notifyOnUpdate, feed,
                   binaries, dirs, zip, events, ensured>>
    /\ \E netOk \in BOOLEAN, data \in Responses(feed) :
         LET got == IF netOk THEN GetLatestRelease(data, platform)
                    ELSE Outcome("NetworkError", Null)
         IN IF got.err # "none"
            THEN /\ initPc' = "failed"
                 /\ UNCHANGED <<latestRelease, cachedByInit, timerArmed, tasks>>
            ELSE /\ latestRelease' = got.value
                 /\ cachedByInit' = got.value
                 /\ IF notifyOnUpdate
                    THEN /\ timerArmed' = TRUE
                         /\ UpdateLatestReleaseCall(0)
                         /\ initPc' = "polling"
                    ELSE /\ initPc' = "done"
                         /\ UNCHANGED <<timerArmed, tasks>>

ManagerNext ==
    \/ \E a \in FeedAssets : FeedPublish(a)
    \/ InitCall
    \/ InitFetchResponse
    \/ \E t \in TaskIds : Tick(t)
    \/ \E t \in TaskIds : PollFetchResponse(t)
    \/ \E t \in TaskIds, arg \in GetArgs : GetConfiguredChia(t, arg)
    \/ \E t \in TaskIds : DownloadResponse(t)
    \/ \E t \in TaskIds : WriterFinish(t)
    \/ \E t \in TaskIds : WriterError(t)
    \/ \E t \in TaskIds : Decompress(t)
    \/ \E t \in TaskIds : Unlink(t)
    \/ \E t \in TaskIds : Recheck(t)

\* ------------------------------------------------ _getLatestRelease alone
\* Assets a release may hold when _getLatestRelease is called alone: both
\* platforms' archives, names the pattern also finds (it is unanchored, and
\* its '.' matches any character), and names it does not find.
FetchAssets ==
    {Name("chia-", V1, "-linux.zip"), Name("chia-", V2, "-linux.zip"),
     Name("chia-", V2, "-linux_zip"), Name("old-chia-", V1, "-linux.zip.sha256"),
     Name("chia-", V2, "-win.zip"), Name("chia-", V3, "-win.zip"),
     Name("chia-", V3, "-mac.zip"), Name("chia-", V3, "-linux.tar.gz"),
     Name("release-notes", <<>>, ".txt")}

\* Assets one response holds at most.
MaxAssets == 3

NoFetch == [pc |-> "idle", requests |-> 0, out |-> Outcome("none", Undefined)]

FetchInit ==
    /\ platform \in Platforms
    /\ notifyOnUpdate = FALSE
    /\ feed \in {f \in SUBSET FetchAssets : Cardinality(f) <= MaxAssets}
    /\ Constructed

\* _getLatestRelease is called: its first statement issues the request.
GetLatestReleaseCall ==
    /\ fetchCall.pc = "idle"
    /\ fetchCall' = [fetchCall EXCEPT !.pc = "waiting", !.requests = @ + 1]
    /\ UNCHANGED <<managerVars, chiaVars, callVars>>

\* The request settles and the rest of _getLatestRelease runs.
GetLatestReleaseReturn ==
    /\ fetchCall.pc = "waiting"
    /\ \E netOk \in BOOLEAN, data \in Responses(feed) :
         fetchCall' = [fetchCall EXCEPT
                         !.pc = "done",
                         !.out = IF netOk THEN GetLatestRelease(data, platform)
                                 ELSE Outcome("NetworkError", Null)]
    /\ UNCHANGED <<managerVars, chiaVars, callVars>>

FetchNext ==
    \/ GetLatestReleaseCall
    \/ GetLatestReleaseReturn

\* ------------------------------------------------------------------- Chia
\* Chia instances and child processes one behaviour creates at most, taken
\* together: one instance running several operations, or several instances.
MaxObjects == 3

SupIds == 1..MaxObjects
ProcIds == 1..MaxObjects
\* Exit codes 'close' reports (0: success) and errors 'error' reports.
ExitCodes == {0, 1, 2}
SpawnErrors == {"ENOENT"}

\* A promise: pending, or settled once; later resolve/reject calls are
\* ignored. calls counts the resolve/reject calls made on it.
Pending == [state |-> "pending", code |-> <<>>, err |-> ""]
Settle(h, state, code, err) ==
    [h EXCEPT !.promise = IF @.state = "pending"
                          THEN [state |-> state, code |-> code, err |-> err] ELSE @,
              !.calls = @ + 1]

\* The 'close' listener of _closed, run with the exit code.
OnCloseMutant(h, code) ==
    IF code = 0 THEN Settle([h EXCEPT !.resolved = TRUE], "resolved", <<>>, "")
    ELSE Settle([h EXCEPT !.resolved = TRUE], "rejected", <<code>>, "")
OnClose(h, code) ==
    IF h.resolved THEN h
    ELSE IF code = 0 THEN Settle([h EXCEPT !.resolved = TRUE], "resolved", <<>>, "")
    ELSE Settle([h EXCEPT !.resolved = TRUE], "rejected", <<code>>, "")

\* The 'error' listener of _closed, run with the error.
OnError(h, err) ==
    IF h.resolved THEN h
    ELSE Settle([h EXCEPT !.resolved = TRUE], "rejected", <<>>, err)

Signal(type, code, err) == [type |-> type, code |-> code, err |-> err]
NoSignal == Signal("none", <<>>, "")

\* _spawnBinary and _closed: a child with both listeners registered once.
\* first is the first 'close'/'error' event the child emitted, later tells
\* whether it emitted another one after it, kills counts the kill requests
\* sent to it.
NewProc(s, args) ==
    [owner |-> s, args |-> args, closeListener |-> TRUE, errorListener |-> TRUE,
     resolved |-> FALSE, promise |-> Pending, calls |-> 0,
     first |-> NoSignal, later |-> FALSE, kills |-> 0]

\* The child has emitted 'close': its 'close' once-listener is gone.
Closed(q) == ~q.closeListener

Emitted(q, sig) ==
    IF q.first = NoSignal THEN [q EXCEPT !.first = sig] ELSE [q EXCEPT !.later = TRUE]

DefaultArgs(s) == <<"--root-path", sups[s].rootDirectory>>

\* What a kill() call did: the child it signalled (0: none), whether that
\* child had already emitted 'close', whether the call waits out the delay.
NoKill == [sup |-> 0, target |-> 0, closed |-> FALSE, waits |-> FALSE]

\* One instance, as getConfiguredChia makes it, on the root directory given.
ChiaInitOn(root) ==
    /\ sups = [s \in SupIds |->
                 IF s = 1 THEN NewChia(GetChiaBinaryPath("linux", V2), root)
                 ELSE NoChia]
    /\ procs = <<>>
    /\ graceTimers = [s \in SupIds |-> 0]
    /\ lastKill = NoKill

ChiaInit == ChiaInitOn(ChiaRootDirectory)

\* this.runningProcess = this._spawnBinary(args): what the instance tracks
\* once it has spawned the child ref.
TrackedMutant(chia, ref) == IF chia.runningProcess = 0 THEN ref ELSE chia.runningProcess
Tracked(chia, ref) == ref

\* Instances constructed and children spawned so far.
Objects == Len(procs) + Cardinality({s \in SupIds : sups[s].exists})

\* _spawnBinaryAndWaitForClose(args) up to its await.
SpawnBinaryAndWaitForClose(s, args) ==
    /\ sups[s].exists
    /\ Objects < MaxObjects
    /\ procs' = Append(procs, NewProc(s, args))
    /\ sups' = [sups EXCEPT ![s].runningProcess = Tracked(sups[s], Len(procs) + 1)]
    /\ UNCHANGED <<graceTimers, lastKill, managerVars, fetchCall, configFiles, configCall>>

ChiaInitOp(s) ==
    /\ SpawnBinaryAndWaitForClose(s, DefaultArgs(s) \o <<"init">>)
    /\ UNCHANGED plotCall
StartDaemon(s) ==
    /\ SpawnBinaryAndWaitForClose(s, DefaultArgs(s) \o <<"run_daemon">>)
    /\ UNCHANGED plotCall
StartHarvester(s) ==
    /\ SpawnBinaryAndWaitForClose(s, DefaultArgs(s) \o <<"start", "harvester">>)
    /\ UNCHANGED plotCall

\* The parameter bag of createPlot: an optional parameter is <<>> when it
\* is not supplied, else <<value>>; a key is <<>> for null, else <<string>>;
\* memoryInMib is in tenths of a MiB.
PlotParams ==
    [tempDirectory : {"/tmp/plots"}, destinationDirectory : {"/plots", "/tmp/plots"},
     kSize : {<<>>, <<25>>}, threads : {<<>>, <<4>>}, buckets : {<<>>, <<64>>},
     memoryInMib : {<<>>, <<33895>>, <<33894>>},
     farmerPublicKey : {<<>>, <<"">>, <<"farmer-key">>},
     poolPublicKey : {<<>>, <<"">>, <<"pool-key">>},
     useBitfield : {<<>>, <<FALSE>>, <<TRUE>>}]

\* A destructuring default: it applies when the parameter is undefined.
Default(param, value) == IF param = <<>> THEN value ELSE param[1]

\* Math.round on tenths.
MathRound(tenths) == (tenths + 5) \div 10

\* JavaScript truthiness of a key: null and "" are falsy.
Truthy(key) == key # <<>> /\ key[1] # ""

\* The argument list createPlot builds.
PlotFlagsMutant(args, useBitfield) == IF useBitfield THEN Append(args, "-e") ELSE args
PlotFlags(args, useBitfield) == IF ~useBitfield THEN Append(args, "-e") ELSE args
CreatePlotArgs(s, params) ==
    LET args == DefaultArgs(s) \o
                  <<"plots", "create",
                    "-k", Default(params.kSize, 32),
                    "-r", Default(params.threads, 2),
                    "-u", Default(params.buckets, 128),
                    "-b", MathRound(Default(params.memoryInMib, 40000)),
                    "-t", params.tempDirectory,
                    "-2", params.destinationDirectory,
                    "-d", params.destinationDirectory>>
        withFarmer == IF Truthy(params.farmerPublicKey)
                      THEN args \o <<"-f", params.farmerPublicKey[1]>> ELSE args
        withPool == IF Truthy(params.poolPublicKey)
                    THEN withFarmer \o <<"-p", params.poolPublicKey[1]>> ELSE withFarmer
    IN PlotFlags(withPool, Default(params.useBitfield, FALSE))

NoPlotCall ==
    [pc |-> "idle", proc |-> 0,
     params |-> [tempDirectory |-> "", destinationDirectory |-> "", kSize |-> <<>>,
                 threads |-> <<>>, buckets |-> <<>>, memoryInMib |-> <<>>,
                 farmerPublicKey |-> <<>>, poolPublicKey |-> <<>>, useBitfield |-> <<>>]]

\* createPlot(params) up to its await.
CreatePlot(s, params) ==
    /\ plotCall.pc = "idle"
    /\ SpawnBinaryAndWaitForClose(s, CreatePlotArgs(s, params))
    /\ plotCall' = [pc |-> "called", proc |-> Len(procs) + 1, params |-> params]

PlotNext == \E s \in SupIds, params \in PlotParams : CreatePlot(s, params)

\* The child emits 'close' with an exit code, once and as its last event:
\* a once-listener runs at most once and is removed when it runs.
EmitClose(p, code) ==
    /\ p \in 1..Len(procs)
    /\ ~Closed(procs[p])
    /\ LET q == Emitted(procs[p], Signal("close", <<code>>, ""))
       IN procs' = [procs EXCEPT ![p] =
                      IF q.closeListener
                      THEN OnClose([q EXCEPT !.closeListener = FALSE], code)
                      ELSE q]
    /\ UNCHANGED <<sups, graceTimers, lastKill, managerVars, fetchCall, callVars>>

\* The child emits 'error' (the spawn failed, or a signal could not be
\* delivered); 'close' may still follow.
EmitError(p, err) ==
    /\ p \in 1..Len(procs)
    /\ ~Closed(procs[p])
    /\ LET q == Emitted(procs[p], Signal("error", <<>>, err))
       IN procs' = [procs EXCEPT ![p] =
                      IF q.errorListener
                      THEN OnError([q EXCEPT !.errorListener = FALSE], err)
                      ELSE q]
    /\ UNCHANGED <<sups, graceTimers, lastKill, managerVars, fetchCall, callVars>>

\* What kill() does to the instance before its await: the process it
\* signals (0: none), the reference it leaves, whether it waits.
KillEffectLiveOnly(chia) ==
    IF chia.runningProcess = 0 \/ Closed(procs[chia.runningProcess])
    THEN [target |-> 0, runningProcess |-> 0, waits |-> FALSE]
    ELSE [target |-> chia.runningProcess, runningProcess |-> 0, waits |-> TRUE]
KillEffectMutant(chia) ==
    IF chia.runningProcess = 0
    THEN [target |-> 0, runningProcess |-> 0, waits |-> FALSE]
    ELSE [target |-> chia.runningProcess, runningProcess |-> chia.runningProcess,
          waits |-> TRUE]
KillEffect(chia) ==
    IF chia.runningProcess = 0
    THEN [target |-> 0, runningProcess |-> 0, waits |-> FALSE]
    ELSE [target |-> chia.runningProcess, runningProcess |-> 0, waits |-> TRUE]

\* kill() up to its await (or to its early return).
Kill(s) ==
    /\ sups[s].exists
    /\ LET e == KillEffect(sups[s])
       IN /\ lastKill' = [sup |-> s, target |-> e.target,
                          closed |-> e.target # 0 /\ Closed(procs[e.target]),
                          waits |-> e.waits]
          /\ sups' = [sups EXCEPT ![s].runningProcess = e.runningProcess]
          /\ procs' = IF e.target = 0 THEN procs
                      ELSE [procs EXCEPT ![e.target].kills = @ + 1]
          /\ graceTimers' = IF e.waits THEN [graceTimers EXCEPT ![s] = @ + 1]
                            ELSE graceTimers
    /\ UNCHANGED <<managerVars, fetchCall, callVars>>

\* The 1000 ms timer of a kill() fires and that kill() returns.
GraceTimeout(s) ==
    /\ graceTimers[s] > 0
    /\ graceTimers' = [graceTimers EXCEPT ![s] = @ - 1]
    /\ UNCHANGED <<sups, procs, lastKill, managerVars, fetchCall, callVars>>

\* What clone() constructs from the instance it is called on.
CloneOfMutant(chia) == chia
CloneOf(chia) == NewChia(chia.binaryPath, chia.rootDirectory)

\* clone()
Clone(s) ==
    /\ sups[s].exists
    /\ Objects < MaxObjects
    /\ \E n \in SupIds :
         /\ ~sups[n].exists
         /\ \A m \in 1..(n - 1) : sups[m].exists
         /\ sups' = [sups EXCEPT ![n] = CloneOf(sups[s])]
    /\ UNCHANGED <<procs, graceTimers, lastKill, managerVars, fetchCall, callVars>>

ChiaNext ==
    \/ \E s \in SupIds : ChiaInitOp(s)
    \/ \E s \in SupIds : StartDaemon(s)
    \/ \E s \in SupIds : StartHarvester(s)
    \/ \E p \in ProcIds, code \in ExitCodes : EmitClose(p, code)
    \/ \E p \in ProcIds, err \in SpawnErrors : EmitError(p, err)
    \/ \E s \in SupIds : Kill(s)
    \/ \E s \in SupIds : GraceTimeout(s)
    \/ \E s \in SupIds : Clone(s)

\* ----------------------------------------------------------------- config
\* A config document: an ordered mapping, flattened to its leaves. A leaf
\* has the path of its keys, the type of its value and the value's text.
Leaf(key, type, text) == [key |-> key, type |-> type, text |-> text]
Leaves ==
    {Leaf(<<"port">>, "int", "8444"), Leaf(<<"port">>, "str", "8444"),
     Leaf(<<"farmer", "host">>, "str", "localhost"),
     Leaf(<<"upnp">>, "bool", "true"), Leaf(<<"upnp">>, "str", "true")}

\* The documents callers write: up to two leaves, under distinct keys.
DistinctKeys(doc) == \A i, j \in 1..Len(doc) : i # j => doc[i].key # doc[j].key
Configs ==
    {doc \in {<<>>} \cup {<<a>> : a \in Leaves} \cup {<<a, b>> : a, b \in Leaves} :
        DistinctKeys(doc)}

\* Texts YAML reads as something other than a string when left plain.
IntTexts == {"8444"}
BoolTexts == {"true", "false"}

\* YAML.dump: one line per leaf; a string that would read back as a number
\* or a boolean is quoted.
YamlLine(key, style, text) == [key |-> key, style |-> style, text |-> text]
YamlDump(doc) ==
    [i \in 1..Len(doc) |->
        YamlLine(doc[i].key,
                 IF doc[i].type = "str" /\ doc[i].text \in IntTexts \cup BoolTexts
                 THEN "quoted" ELSE "plain",
                 doc[i].text)]

\* YAML.load: a quoted scalar is a string; a plain one is resolved by its
\* text.
YamlLoad(yaml) ==
    [i \in 1..Len(yaml) |->
        Leaf(yaml[i].key,
             IF yaml[i].style = "quoted" THEN "str"
             ELSE IF yaml[i].text \in IntTexts THEN "int"
             ELSE IF yaml[i].text \in BoolTexts THEN "bool"
             ELSE "str",
             yaml[i].text)]

\* this.<name> on a Chia instance: <<>> for a property the instance does not
\* have (undefined), else <<value>>.
Get(chia, name) == IF name \in DOMAIN chia THEN <<chia[name]>> ELSE <<>>

\* path.join: a TypeError unless every argument is a string.
Join(parts) ==
    IF \E i \in 1..Len(parts) : parts[i] = <<>>
    THEN [err |-> "TypeError", path |-> <<>>]
    ELSE [err |-> "none", path |-> [i \in 1..Len(parts) |-> parts[i][1]]]

\* The getter _chiaConfigPath.
ChiaConfigPath(chia) ==
    Join(<<Get(chia, "chiaRootDirectory"), <<"config">>, <<"config.yaml">>>>)

\* Root directories, and where the config file of each is.
RootDirs == {ChiaRootDirectory, "other-root"}
ConfigFileOf(root) == <<root, "config", "config.yaml">>
ConfigPaths == {ConfigFileOf(root) : root \in RootDirs}

NoFile == [exists |-> FALSE, yaml |-> <<>>]
File(yaml) == [exists |-> TRUE, yaml |-> yaml]

\* The latest writeConfig call since the files were last written by anyone
\* else (written, werr) and the readConfig call made after it (read, rerr).
NoConfigCall ==
    [sup |-> 0, written |-> <<>>, werr |-> "none",
     readDone |-> FALSE, read |-> <<>>, rerr |-> "none"]

ConfigInit ==
    /\ configFiles \in [ConfigPaths -> {NoFile, File(YamlDump(<<Leaf(<<"port">>, "int", "8444")>>))}]
    /\ configCall = NoConfigCall

\* writeConfig(config): the document is dumped, then the getter is read for
\* the first argument of fs.writeFile.
WriteConfig(s, config) ==
    /\ sups[s].exists
    /\ LET configYaml == YamlDump(config)
           at == ChiaConfigPath(sups[s])
       IN /\ configFiles' = IF at.err = "none" /\ at.path \in ConfigPaths
                            THEN [configFiles EXCEPT ![at.path] = File(configYaml)]
                            ELSE configFiles
          /\ configCall' = [NoConfigCall EXCEPT !.sup = s, !.written = <<config>>,
                                                !.werr = at.err]
    /\ UNCHANGED <<managerVars, fetchCall, chiaVars, plotCall>>

\* readConfig()
ReadConfig(s) ==
    /\ sups[s].exists
    /\ LET at == ChiaConfigPath(sups[s])
           rerr == IF at.err # "none" THEN at.err
                   ELSE IF at.path \notin ConfigPaths \/ ~configFiles[at.path].exists
                        THEN "ENOENT" ELSE "none"
       IN configCall' = [configCall EXCEPT
                           !.sup = s, !.readDone = TRUE, !.rerr = rerr,
                           !.read = IF rerr = "none"
                                    THEN <<YamlLoad(configFiles[at.path].yaml)>>
                                    ELSE <<>>]
    /\ UNCHANGED <<managerVars, fetchCall, chiaVars, configFiles, plotCall>>

\* Something else (the chia executable, an editor) writes a config file.
OtherWriter(path, config) ==
    /\ configFiles' = [configFiles EXCEPT ![path] = File(YamlDump(config))]
    /\ configFiles' # configFiles
    /\ configCall' = NoConfigCall
    /\ UNCHANGED <<managerVars, fetchCall, chiaVars, plotCall>>

ConfigNext ==
    \/ \E s \in SupIds, config \in Configs : WriteConfig(s, config)
    \/ \E s \in SupIds : ReadConfig(s)
    \/ \E path \in ConfigPaths, config \in Configs : OtherWriter(path, config)

\* ---------------------------------------------------------- specifications
\* The manager: init(), the update timer, callers of getConfiguredChia and
\* the release growing.
CallsIdle ==
    /\ configFiles = [path \in ConfigPaths |-> NoFile]
    /\ configCall = NoConfigCall
    /\ plotCall = NoPlotCall

Init == ManagerInit /\ fetchCall = NoFetch /\ ChiaInit /\ CallsIdle
Next == ManagerNext
Spec == Init /\ [][Next]_vars

\* _getLatestRelease called once, on every platform and response.
InitFetch == FetchInit /\ fetchCall = NoFetch /\ ChiaInit /\ CallsIdle
NextFetch == FetchNext
SpecFetch == InitFetch /\ [][NextFetch]_vars

\* One Chia instance, its clones and their child processes.
InitChia ==
    /\ platform = "linux" /\ notifyOnUpdate = FALSE /\ feed = {} /\ Constructed
    /\ fetchCall = NoFetch
    /\ ChiaInit
    /\ CallsIdle
NextChia == ChiaNext
SpecChia == InitChia /\ [][NextChia]_vars

\* The manager and the rest as the other specifications leave them.
Elsewhere ==
    /\ platform = "linux" /\ notifyOnUpdate = FALSE /\ feed = {} /\ Constructed
    /\ fetchCall = NoFetch

\* writeConfig and readConfig of one instance, on either root directory,
\* beside another writer of the files.
InitConfig ==
    /\ Elsewhere
    /\ \E root \in RootDirs : ChiaInitOn(root)
    /\ ConfigInit
    /\ plotCall = NoPlotCall
NextConfig == ConfigNext
SpecConfig == InitConfig /\ [][NextConfig]_vars

\* createPlot called once, on every parameter bag.
InitPlot ==
    /\ Elsewhere
    /\ \E root \in RootDirs : ChiaInitOn(root)
    /\ CallsIdle
NextPlot == PlotNext
SpecPlot == InitPlot /\ [][NextPlot]_vars

\* ----------------------------------------------------------------- claims
PromiseOf(state, code, err) == [state |-> state, code |-> code, err |-> err]

\* C1: the promise of every spawn is settled by at most one resolve/reject
\* call, and its outcome is fixed by the first 'close'/'error' event of the
\* child: resolved iff that event is close with code 0, rejected with N iff
\* it is close with code N # 0, rejected with the error iff it is 'error';
\* events after the first change nothing.
C1_SettledOnceByFirstSignal ==
    \A p \in 1..Len(procs) :
        LET q == procs[p]
        IN /\ q.calls <= 1
           /\ q.promise.state = "pending" <=> q.first = NoSignal
           /\ q.promise.state = "resolved" <=> q.first = Signal("close", <<0>>, "")
           /\ \A n \in ExitCodes \ {0} :
                q.promise = PromiseOf("rejected", <<n>>, "")
                    <=> q.first = Signal("close", <<n>>, "")
           /\ \A e \in SpawnErrors :
                q.promise = PromiseOf("rejected", <<>>, e)
                    <=> q.first = Signal("error", <<>>, e)

\* A child whose spawn failed emitted 'error' and then another event: the
\* promise is rejected with the error.
C1_Witness ==
    \E p \in 1..Len(procs) :
        /\ procs[p].first.type = "error"
        /\ procs[p].later
        /\ ~procs[p].closeListener
        /\ procs[p].promise = PromiseOf("rejected", <<>>, procs[p].first.err)

\* C2: every assignment to the cached latest release stores a version
\* greater than or equal to the version it replaces, overlapping polls
\* included.
C2_NeverRolledBack ==
    [][(latestRelease.kind = "asset" /\ latestRelease'.kind = "asset")
          => SemverCompare(latestRelease'.version, latestRelease.version) >= 0]_vars

\* The step of task t in which its poll ends.
PollEnds(t) ==
    /\ tasks[t].kind = "poll" \/ tasks'[t].kind = "poll"
    /\ tasks[t].pc # "done"
    /\ tasks'[t].pc = "done"

\* C3: a new-release notification for V is emitted only by a poll whose own
\* ensure(V) succeeded, in a step after which V's binary exists and the
\* cached latest is V; a poll whose ensure failed leaves the cached latest
\* and the notifications unchanged and returns without raising.
C3_EmitOnlyAfterEnsure ==
    [][/\ events' # events =>
            \E t \in TaskIds :
                /\ PollEnds(t)
                /\ tasks'[t].ens \in {"noop", "installed"}
                /\ events' = Append(events, tasks'[t].ver)
                /\ tasks'[t].ver \in binaries'
                /\ latestRelease'.kind = "asset"
                /\ latestRelease'.version = tasks'[t].ver
       /\ \A t \in TaskIds :
            (PollEnds(t) /\ tasks'[t].ens = "failed") =>
                /\ latestRelease' = latestRelease
                /\ events' = events
                /\ tasks'[t].result = "returned"]_vars

\* One poll's ensure failed and was swallowed, another poll installed the
\* version and emitted it.
C3_Witness ==
    \E t, u \in TaskIds :
        /\ tasks[t].kind = "poll" /\ tasks[t].pc = "done" /\ tasks[t].ens = "failed"
        /\ tasks[u].kind = "poll" /\ tasks[u].pc = "done" /\ tasks[u].ens = "installed"
        /\ events = <<tasks[u].ver>>
        /\ latestRelease.version = tasks[u].ver

\* The step in which task t enters _ensureVersionExists.
EnsureStarts(t) == tasks[t].ver = <<>> /\ tasks'[t].ver # <<>>

\* C4: an ensure(V) called after an ensure(V) has succeeded returns in the
\* same step without creating a directory, issuing a request or writing a
\* file; a successful call that found the binary absent made one download
\* and one extraction, so the two calls make exactly one of each.
C4_EnsureIdempotent ==
    /\ [][\A t \in TaskIds :
            (EnsureStarts(t) /\ tasks'[t].ver \in ensured) =>
                /\ tasks'[t].pc = "done"
                /\ tasks'[t].ens = "noop"
                /\ tasks'[t].mk = 0 /\ tasks'[t].dl = 0 /\ tasks'[t].wr = 0
                /\ tasks'[t].ex = 0 /\ tasks'[t].ul = 0
                /\ <<binaries, dirs, zip>>' = <<binaries, dirs, zip>>]_vars
    /\ [](\A t \in TaskIds :
            (tasks[t].pc = "done" /\ tasks[t].ens = "installed") =>
                tasks[t].absent /\ tasks[t].dl = 1 /\ tasks[t].ex = 1)

\* A call installed V by downloading; a later call for V returned at once.
C4_Witness ==
    \E t, u \in TaskIds :
        /\ tasks[u].pc = "done" /\ tasks[u].ens = "installed" /\ tasks[u].dl = 1
        /\ tasks[t].pc = "done" /\ tasks[t].ens = "noop" /\ tasks[t].again
        /\ tasks[t].ver = tasks[u].ver
        /\ tasks[t].dl = 0

\* C5: kill() on an instance that tracks no process changes nothing (no
\* request sent, no delay started); kill() on an instance that tracks a
\* process sends it one termination request, clears the reference and
\* starts the delay in one step, so no process is ever sent a second
\* request by a later kill().
C5_Kill ==
    /\ [][\A s \in SupIds :
            Kill(s) =>
                IF sups[s].runningProcess = 0
                THEN /\ <<sups, procs, graceTimers>>' = <<sups, procs, graceTimers>>
                     /\ lastKill' = [sup |-> s, target |-> 0, closed |-> FALSE,
                                      waits |-> FALSE]
                ELSE /\ procs'[sups[s].runningProcess].kills
                            = procs[sups[s].runningProcess].kills + 1
                     /\ \A p \in 1..Len(procs) :
                            p # sups[s].runningProcess => procs'[p] = procs[p]
                     /\ sups'[s].runningProcess = 0
                     /\ graceTimers'[s] = graceTimers[s] + 1]_vars
    /\ [](\A p \in 1..Len(procs) : procs[p].kills <= 1)

\* A kill() signalled the tracked process; a second kill(), issued while
\* the first is still waiting, did nothing.
C5_Witness ==
    /\ lastKill.sup # 0
    /\ lastKill.target = 0
    /\ graceTimers[lastKill.sup] > 0
    /\ sups[lastKill.sup].runningProcess = 0
    /\ \E p \in 1..Len(procs) : procs[p].owner = lastKill.sup /\ procs[p].kills = 1

\* The version the platform's pattern finds in a name, <<>> if none.
PlatformVersion(name) == Match(name, BinaryZipRegex(platform))

\* C6: an asset _getLatestRelease returns is one of the response's assets,
\* its name matches the platform's pattern, and its version is greater than
\* or equal to that of every matching asset of the response.
C6_ReturnsGreatestMatching ==
    (fetchCall.pc = "done" /\ fetchCall.out.value.kind = "asset") =>
        LET r == fetchCall.out.value
        IN /\ r.name \in feed
           /\ PlatformVersion(r.name) = <<r.version>>
           /\ \A a \in feed :
                PlatformVersion(a) # <<>> =>
                    SemverCompare(r.version, PlatformVersion(a)[1]) >= 0

\* The response held two matching assets and an asset of another platform
\* with a greater version; the greater matching one was returned.
C6_Witness ==
    /\ fetchCall.pc = "done"
    /\ fetchCall.out.value.kind = "asset"
    /\ \E a \in feed :
         /\ PlatformVersion(a) # <<>>
         /\ SemverCompare(fetchCall.out.value.version, PlatformVersion(a)[1]) > 0
    /\ \E b \in feed :
         /\ PlatformVersion(b) = <<>>
         /\ Len(b.ver) = 3
         /\ SemverCompare(b.ver, fetchCall.out.value.version) > 0

\* The step in which the feed request of poll t completes.
PollFetched(t) ==
    tasks[t].kind = "poll" /\ tasks[t].pc = "fetch" /\ tasks'[t].pc # "fetch"

\* The poll ended there as a no-op.
PollNoOp(t) ==
    /\ tasks'[t].pc = "done"
    /\ tasks'[t].result = "returned"
    /\ tasks'[t].ens = "none"
    /\ tasks'[t].dl = 0
    /\ latestRelease' = latestRelease
    /\ events' = events
    /\ <<binaries, dirs, zip>>' = <<binaries, dirs, zip>>
    /\ timerArmed' /\ timerArmed

\* C7: a poll whose feed request fails, and a poll that fetches a version
\* not strictly greater than the cached one, end at once without raising:
\* no ensure or download is started, the cached latest, the notifications
\* and the files are unchanged, and the timer stays set.
C7_FailedOrNotNewerIsNoOp ==
    [][\A t \in TaskIds :
         PollFetched(t) =>
            /\ tasks'[t].ferr # "none" => PollNoOp(t)
            /\ (/\ tasks'[t].ferr = "none"
                /\ tasks'[t].rel.kind = "asset"
                /\ latestRelease.kind = "asset"
                /\ SemverCompare(tasks'[t].rel.version, latestRelease.version) <= 0)
                   => PollNoOp(t)]_vars

\* One poll's feed request failed; another fetched the cached version.
C7_Witness ==
    \E t, u \in TaskIds :
        /\ tasks[t].kind = "poll" /\ tasks[t].pc = "done"
        /\ tasks[t].ferr = "NetworkError"
        /\ tasks[u].kind = "poll" /\ tasks[u].pc = "done"
        /\ tasks[u].ferr = "none" /\ tasks[u].ens = "none"
        /\ tasks[u].rel.kind = "asset"
        /\ tasks[u].rel.version = latestRelease.version

\* The step in which the ensure of task t settles.
EnsureEnds(t) ==
    /\ tasks[t].pc # "done"
    /\ tasks'[t].pc = "done"
    /\ tasks'[t].ens # "none"

\* C8: an ensure(V) that succeeds ends with the binary present; one that
\* found it absent and succeeded made the directories, one download, one
\* write, one extraction and one unlink, and ends with the temp archive
\* gone; one that completed its extraction and fails, fails with the
\* missing-binary error.
C8_EnsureInstallsAndCleansUp ==
    [][\A t \in TaskIds :
         EnsureEnds(t) =>
            /\ tasks'[t].ens \in {"noop", "installed"} => tasks'[t].ver \in binaries'
            /\ tasks'[t].ens = "installed" =>
                 /\ tasks'[t].mk = 2 /\ tasks'[t].dl = 1 /\ tasks'[t].wr = 1
                 /\ tasks'[t].ex = 1 /\ tasks'[t].ul = 1
                 /\ zip'[tasks'[t].ver] = "absent"
            /\ (tasks'[t].ens = "failed" /\ tasks'[t].ex = 1
                    /\ tasks'[t].ver \notin binaries')
                 => tasks'[t].err = "MissingBinary"]_vars

\* C9: a _getLatestRelease call that fails with the unsupported-platform
\* error has issued no request.
C9_UnsupportedFailsBeforeRequest ==
    (fetchCall.pc = "done" /\ fetchCall.out.err = "UnsupportedPlatform")
        => fetchCall.requests = 0

\* C10: when no asset of the received response matches the platform's
\* pattern, _getLatestRelease fails; it never completes without a release.
C10_NoMatchFails ==
    (/\ fetchCall.pc = "done"
     /\ fetchCall.out.err # "NetworkError"
     /\ Supported(platform)
     /\ \A a \in feed : PlatformVersion(a) = <<>>)
        => fetchCall.out.err # "none"

\* C11: a getConfiguredChia(V) call that returned did so after its
\* ensure(V) succeeded, with a Chia on <binaryDirectory>/<V>/<binaryName>
\* and on the manager's root directory, while that file exists; a call whose
\* ensure failed (or that could not take its default version) raised the
\* error and handed back no Chia.
C11_ConfiguredChiaAfterEnsure ==
    \A t \in TaskIds :
        (tasks[t].kind = "get" /\ tasks[t].pc = "done") =>
            IF tasks[t].result = "returned"
            THEN /\ tasks[t].ens \in {"noop", "installed"}
                 /\ tasks[t].chia.exists
                 /\ tasks[t].chia.binaryPath
                        = <<"binaries", tasks[t].ver,
                            IF platform = "win32" THEN "chia.exe" ELSE "chia">>
                 /\ tasks[t].chia.rootDirectory = ChiaRootDirectory
                 /\ tasks[t].chia.runningProcess = 0
                 /\ tasks[t].ver \in binaries
            ELSE /\ tasks[t].result = "raised"
                 /\ tasks[t].err # "none"
                 /\ tasks[t].ens \in {"failed", "none"}
                 /\ tasks[t].chia = NoChia

\* A getConfiguredChia call downloaded and installed its version and
\* returned a Chia on it.
C11_Witness ==
    \E t \in TaskIds :
        /\ tasks[t].kind = "get" /\ tasks[t].pc = "done"
        /\ tasks[t].ens = "installed" /\ tasks[t].dl = 1
        /\ tasks[t].chia.exists
        /\ tasks[t].chia.binaryPath = GetChiaBinaryPath(platform, tasks[t].ver)

\* A high-level operation of instance s spawns a child.
Spawns(s) == ChiaInitOp(s) \/ StartDaemon(s) \/ StartHarvester(s)

\* C12: clone() on s adds one instance with s's executable path and root
\* directory and no tracked process, and leaves every existing instance
\* (s included) and every process as it was; an operation or a kill() on
\* one instance leaves the tracked process of every other instance
\* unchanged; an instance tracks only processes it spawned itself.
C12_CloneIsIndependent ==
    /\ [][\A s \in SupIds :
            /\ Clone(s) =>
                  \E n \in SupIds :
                      /\ ~sups[n].exists /\ sups'[n].exists
                      /\ sups'[n].binaryPath = sups[s].binaryPath
                      /\ sups'[n].rootDirectory = sups[s].rootDirectory
                      /\ sups'[n].runningProcess = 0
                      /\ \A m \in SupIds \ {n} : sups'[m] = sups[m]
                      /\ procs' = procs
            /\ (Spawns(s) \/ Kill(s)) =>
                  \A m \in SupIds \ {s} :
                      sups'[m].runningProcess = sups[m].runningProcess]_vars
    /\ [](\A s \in SupIds :
            sups[s].runningProcess # 0 => procs[sups[s].runningProcess].owner = s)

\* An instance started an operation and was cloned; kill() on the clone
\* did nothing, and the original still tracks its process.
C12_Witness ==
    \E s, n \in SupIds :
        /\ s # n /\ sups[s].exists /\ sups[n].exists
        /\ sups[n].binaryPath = sups[s].binaryPath
        /\ sups[n].rootDirectory = sups[s].rootDirectory
        /\ sups[s].runningProcess # 0
        /\ procs[sups[s].runningProcess].kills = 0
        /\ lastKill.sup = n /\ lastKill.target = 0 /\ ~lastKill.waits

\* C13: a readConfig() made after a writeConfig(c), with no other writer in
\* between, finds both calls successful, returns a document equal to c, and
\* c is what the file <rootDirectory>/config/config.yaml of the instance
\* holds.
C13_WriteThenReadRoundTrips ==
    (configCall.written # <<>> /\ configCall.readDone) =>
        LET at == ConfigFileOf(sups[configCall.sup].rootDirectory)
        IN /\ configCall.werr = "none"
           /\ configCall.rerr = "none"
           /\ configCall.read = configCall.written
           /\ configFiles[at].exists
           /\ <<YamlLoad(configFiles[at].yaml)>> = configCall.written

\* The integer nearest to a number of tenths (halves go up).
Nearest(tenths) == CHOOSE n \in 0..10000 : 10 * n - 5 <= tenths /\ tenths < 10 * n + 5

\* C14: the argument list of a createPlot call is --root-path R, plots
\* create, -k, -r, -u, -b, -t temp, -2 dest, -d dest with the defaults 32,
\* 2, 128 and 4000 for what is not supplied (the memory rounded to the
\* nearest integer), then -f with the farmer key if one is supplied, then
\* -p with the pool key if one is supplied, then -e unless useBitfield is
\* true; with only the two directories supplied it is exactly the default
\* list ending in -e.
C14_CreatePlotArgs ==
    plotCall.pc = "called" =>
        LET q == plotCall.params
            args == procs[plotCall.proc].args
            R == sups[procs[plotCall.proc].owner].rootDirectory
            given(key) == key # <<>> /\ key # <<"">>
            head == <<"--root-path", R, "plots", "create",
                      "-k", IF q.kSize = <<>> THEN 32 ELSE q.kSize[1],
                      "-r", IF q.threads = <<>> THEN 2 ELSE q.threads[1],
                      "-u", IF q.buckets = <<>> THEN 128 ELSE q.buckets[1],
                      "-b", IF q.memoryInMib = <<>> THEN 4000
                            ELSE Nearest(q.memoryInMib[1]),
                      "-t", q.tempDirectory,
                      "-2", q.destinationDirectory,
                      "-d", q.destinationDirectory>>
            f == IF given(q.farmerPublicKey) THEN <<"-f", q.farmerPublicKey[1]>> ELSE <<>>
            p == IF given(q.poolPublicKey) THEN <<"-p", q.poolPublicKey[1]>> ELSE <<>>
            e == IF q.useBitfield = <<TRUE>> THEN <<>> ELSE <<"-e">>
        IN /\ args = head \o f \o p \o e
           /\ (/\ q.kSize = <<>> /\ q.threads = <<>> /\ q.buckets = <<>>
               /\ q.memoryInMib = <<>> /\ q.farmerPublicKey = <<>>
               /\ q.poolPublicKey = <<>> /\ q.useBitfield = <<>>)
                 => args = <<"--root-path", R, "plots", "create", "-k", 32, "-r", 2,
                             "-u", 128, "-b", 4000, "-t", q.tempDirectory,
                             "-2", q.destinationDirectory,
                             "-d", q.destinationDirectory, "-e">>

\* createPlot was called with a pool key, no farmer key, a fractional
\* memory budget and useBitfield true: -p follows the directories and
\* there is no -e.
C14_Witness ==
    /\ plotCall.pc = "called"
    /\ plotCall.params.farmerPublicKey = <<>>
    /\ plotCall.params.poolPublicKey = <<"pool-key">>
    /\ plotCall.params.useBitfield = <<TRUE>>
    /\ plotCall.params.memoryInMib = <<33895>>
    /\ Len(procs[plotCall.proc].args) = 20
    /\ procs[plotCall.proc].args[12] = 3390
    /\ procs[plotCall.proc].args[19] = "-p"

\* The child p emits an event.
Emits(p) ==
    \/ \E code \in ExitCodes : EmitClose(p, code)
    \/ \E err \in SpawnErrors : EmitError(p, err)

\* C15: an operation started on an instance makes the new child the tracked
\* one, whatever the instance tracked before, and touches no earlier child
\* (it is not signalled and keeps its listeners); kill() sends its request
\* to the tracked child alone and leaves the instance tracking nothing; an
\* instance never tracks a child again once it has replaced it; and the
\* promise of a child changes only in a step in which that child emits
\* 'close' or 'error'.
C15_OverlapReplacesHandle ==
    /\ [][/\ \A s \in SupIds :
               /\ Spawns(s) =>
                     /\ sups'[s].runningProcess = Len(procs) + 1
                     /\ procs'[Len(procs) + 1].owner = s
                     /\ \A p \in 1..Len(procs) : procs'[p] = procs[p]
               /\ Kill(s) =>
                     /\ sups'[s].runningProcess = 0
                     /\ \A p \in 1..Len(procs) :
                            p # sups[s].runningProcess => procs'[p] = procs[p]
           /\ \A p \in 1..Len(procs) :
                 procs'[p].promise # procs[p].promise => Emits(p)]_vars
    /\ [](\A s \in SupIds, p \in 1..Len(procs) :
            (sups[s].runningProcess # 0 /\ procs[p].owner = s)
                => p <= sups[s].runningProcess)

\* One instance started two operations and was then killed: the second
\* child got the request, the first got none, has emitted nothing and its
\* promise is pending, and the instance tracks nothing.
C15_Witness ==
    \E s \in SupIds, p, q \in 1..Len(procs) :
        /\ p < q /\ procs[p].owner = s /\ procs[q].owner = s
        /\ procs[q].kills = 1
        /\ procs[p].kills = 0
        /\ procs[p].first = NoSignal /\ procs[p].promise = Pending
        /\ sups[s].runningProcess = 0
        /\ lastKill.sup = s /\ lastKill.target = q

\* C19: the tracked reference of an instance is cleared in steps of its
\* kill() only; a child emitting 'close' or 'error' leaves every instance
\* tracking what it tracked; and a kill() on an instance whose tracked
\* child has already closed still sends that child a request, clears the
\* reference and starts the delay.
C19_ClearedOnlyByKill ==
    [][/\ \A s \in SupIds :
           /\ (sups[s].runningProcess # 0 /\ sups'[s].runningProcess = 0) => Kill(s)
           /\ (Kill(s) /\ sups[s].runningProcess # 0
                    /\ Closed(procs[sups[s].runningProcess])) =>
                 /\ procs'[sups[s].runningProcess].kills
                        = procs[sups[s].runningProcess].kills + 1
                 /\ graceTimers'[s] = graceTimers[s] + 1
                 /\ lastKill'.waits
       /\ \A p \in 1..Len(procs) : Emits(p) => sups' = sups]_vars

\* A child closed with code 0 and its promise resolved; a kill() issued
\* afterwards signalled it and is waiting out the delay.
C19_Witness ==
    /\ lastKill.target # 0
    /\ lastKill.closed
    /\ lastKill.waits
    /\ procs[lastKill.target].promise.state = "resolved"
    /\ procs[lastKill.target].kills = 1
    /\ graceTimers[lastKill.sup] > 0
    /\ sups[lastKill.sup].runningProcess = 0

\* C16: every ensure(V) call that finds the binary absent issues its own
\* download, whether or not another call for V is already downloading, and
\* all of them write and unlink the one archive of V; a call finds that
\* archive missing (ENOENT) only when another call for V has unlinked it.
\* The witness is the interleaving in which that happens while the other
\* call installs the binary.
C16_EnsureRace ==
    \A t \in TaskIds :
        /\ (tasks[t].ver # <<>> /\ tasks[t].absent /\ Supported(platform))
              => tasks[t].dl = 1
        /\ tasks[t].err = "ENOENT" =>
              \E u \in TaskIds \ {t} :
                  /\ tasks[u].ver = tasks[t].ver
                  /\ tasks[u].absent
                  /\ tasks[u].ul = 1

\* Two overlapping calls for one version both found it absent, both
\* downloaded and wrote the archive; one installed the binary, the other
\* failed on the archive the first had already deleted.
C16_Witness ==
    \E t, u \in TaskIds :
        /\ t # u /\ tasks[t].ver = tasks[u].ver
        /\ tasks[t].absent /\ tasks[u].absent
        /\ tasks[t].dl = 1 /\ tasks[u].dl = 1
        /\ tasks[t].wr = 1 /\ tasks[u].wr = 1
        /\ tasks[u].pc = "done" /\ tasks[u].ens = "installed"
        /\ tasks[t].pc = "done" /\ tasks[t].ens = "failed" /\ tasks[t].err = "ENOENT"
        /\ tasks[t].ver \in binaries

\* C17: no poll ends by raising an error.
C17_PollNeverRaises ==
    \A t \in TaskIds : tasks[t].kind = "poll" => tasks[t].result # "raised"

\* No poll has started while another poll was running.
NoOverlap == \A t \in TaskIds : ~tasks[t].ovl

\* C18: as long as no two polls have overlapped, the notified versions are
\* strictly increasing (so none is notified twice) and each is strictly
\* greater than the version init() cached.
C18_NotificationsIncrease ==
    NoOverlap =>
        /\ \A i, j \in 1..Len(events) :
              i < j => SemverCompare(events[i], events[j]) < 0
        /\ \A i \in 1..Len(events) :
              /\ cachedByInit.kind = "asset"
              /\ SemverCompare(events[i], cachedByInit.version) > 0

\* init() cached a version and its own poll notified a greater one; a
\* timer poll started after that poll had ended and notified a still
\* greater one.
C18_Witness ==
    /\ NoOverlap
    /\ Len(events) = 2
    /\ cachedByInit.kind = "asset"
    /\ \E t \in TaskIds \ {0} :
         /\ tasks[t].kind = "poll" /\ tasks[t].pc = "done"
         /\ tasks[t].ver = events[2]
    /\ tasks[0].pc = "done" /\ tasks[0].ver = events[1]

\* C20: an ensure(V) that fails on its download request or on its archive
\* write has extracted nothing and leaves V's directory in place and the
\* binaries as they were, so V's binary is absent unless another call
\* extracted it; an ensure(V) that finds the binary absent, the directory
\* being there or not, issues a download and does not return in that step;
\* and an ensure(V) ends in success only with V's binary present.
C20_FailureNotSticky ==
    [][\A t \in TaskIds :
         /\ (EnsureEnds(t) /\ tasks'[t].ens = "failed"
                 /\ tasks'[t].err \in {"NetworkError", "WriteError"}) =>
               /\ tasks'[t].ex = 0
               /\ tasks'[t].ver \in dirs'
               /\ binaries' = binaries
               /\ tasks'[t].ver \in binaries' =>
                     \E u \in TaskIds \ {t} :
                         tasks'[u].ver = tasks'[t].ver /\ tasks'[u].ex = 1
         /\ (EnsureStarts(t) /\ tasks'[t].ver \notin binaries /\ Supported(platform)) =>
               /\ tasks'[t].pc = "dl_get"
               /\ tasks'[t].dl = 1
               /\ tasks'[t].ens = "none"
         /\ (EnsureEnds(t) /\ tasks'[t].ens \in {"noop", "installed"}) =>
               tasks'[t].ver \in binaries']_vars

\* An ensure of a version failed on its download or write and left the
\* directory without the binary; a later call for the version downloaded
\* again and installed it.
C20_Witness ==
    \E t, u \in TaskIds :
        /\ tasks[u].pc = "done" /\ tasks[u].ens = "failed"
        /\ tasks[u].err \in {"NetworkError", "WriteError"}
        /\ tasks[u].ex = 0
        /\ tasks[t].ver = tasks[u].ver
        /\ tasks[t].retry /\ tasks[t].absent
        /\ tasks[t].dl = 1
        /\ tasks[t].pc = "done" /\ tasks[t].ens = "installed"

====
